---- MODULE Spec2Model ----
(***************************************************************************)
(* File_System_Simulator: the block allocator and file catalog of          *)
(* file_manager.py (with the snapshot of storage.py) and the six disk-arm  *)
(* scheduling functions of disk_scheduler.py.                              *)
(*                                                                         *)
(* Python lists are modelled as TLA+ sequences (1-based) whose elements    *)
(* are the 0-based block indices / positions of the source; the disk is a  *)
(* function over 0..disk_size-1 so that block indices read as in the code. *)
(***************************************************************************)
EXTENDS Integers, Sequences, FiniteSets, TLC

(***************************************************************************)
(* Bounds of the model.                                                    *)
(***************************************************************************)
\* number of blocks of the modelled disk (file_manager.py:4 sets 100)
disk_size == 3
\* requested sizes range over -MaxNeg..MaxSize
MaxSize == 2
MaxNeg == 1
\* the file manager is followed for MaxCalls calls
MaxCalls == 4
\* datetime.now() ranges over 0..MaxTime
MaxTime == 1
\* disk scheduling: positions 0..MaxPos, request lists of length <= MaxReq
MaxPos == 4
MaxReq == 3
\* process manager: at most MaxProcs processes, priorities 0..MaxPriority,
\* creation timestamps 0..MaxStamp
MaxProcs == 3
MaxPriority == 2
MaxStamp == 2

\* file names a caller may pass; "free" is an ordinary string a caller may
\* type as a file name, and it is also the tag of an unowned block
Names == {"free", "a", "b"}
Sizes == (0 - MaxNeg)..MaxSize
Methods == {"Contiguous", "Linked", "Indexed"}
Contents == {"c0", "c1"}
\* the content a file is created with
NewContents == {"c0"}
Blocks == 0..(disk_size - 1)

VARIABLES
    disk,            \* file_manager.disk: block index -> 'free' or a file name
    file_directory,  \* file_manager.file_directory: name -> entry
    saved,           \* the pickled snapshot file: <<>> (no file) or <<data>>
    now,             \* the latest value datetime.now() has returned
    call,            \* the last call of the file manager: arguments and result
    ncalls,          \* the number of calls made to the file manager
    requests,        \* disk scheduling: the request list
    start,           \* disk scheduling: the start position
    direction,       \* disk scheduling: 'up' or 'down'
    algorithm,       \* disk scheduling: the function last applied
    sequence,        \* disk scheduling: the sequence it returned
    procs,           \* the Process objects created so far, by order of creation
    queue,           \* ProcessManager.queue: a list of processes
    completed,       \* ProcessManager.completed: a list of processes
    scheduling_algorithm,  \* ProcessManager.algorithm
    current_process, \* ProcessManager.current_process: a process, 0 for None
    pmcall           \* the last call of the process manager and its result

fsvars == <<disk, file_directory, saved, now, call, ncalls>>
schedvars == <<requests, start, direction, algorithm, sequence>>
pmvars == <<procs, queue, completed, scheduling_algorithm, current_process,
            pmcall>>
vars == <<disk, file_directory, saved, now, call, ncalls,
          requests, start, direction, algorithm, sequence,
          procs, queue, completed, scheduling_algorithm, current_process,
          pmcall>>

(***************************************************************************)
(* Python list helpers.                                                    *)
(***************************************************************************)
Min(a, b) == IF a <= b THEN a ELSE b
Max(a, b) == IF a >= b THEN a ELSE b
Abs(x) == IF x < 0 THEN 0 - x ELSE x

\* a slice bound as Python normalises it: negative counts from the end,
\* then clamped to 0..len
SliceBound(i, len) == IF i < 0 THEN Max(i + len, 0) ELSE Min(i, len)

\* s[lo:hi] of a Python list (lo, hi are 0-based Python indices)
PySlice(s, lo, hi) ==
    LET l == SliceBound(lo, Len(s))
        h == SliceBound(hi, Len(s))
    IN  IF h <= l THEN <<>> ELSE SubSeq(s, l + 1, h)

\* the elements of a sequence
Range(s) == {s[i] : i \in 1..Len(s)}

(***************************************************************************)
(* file_manager.py                                                         *)
(***************************************************************************)
\* get_free_blocks(): [i for i, b in enumerate(disk) if b == 'free']
RECURSIVE FreeFrom(_, _)
FreeFrom(d, i) ==
    IF i >= disk_size THEN <<>>
    ELSE IF d[i] = "free" THEN <<i>> \o FreeFrom(d, i + 1)
    ELSE FreeFrom(d, i + 1)
get_free_blocks(d) == FreeFrom(d, 0)

\* get_free_block_count(): disk.count('free')
get_free_block_count(d) == Cardinality({i \in Blocks : d[i] = "free"})

\* for b in blks: disk[b] = tag
Mark(d, blks, tag) ==
    [i \in Blocks |-> IF i \in Range(blks) THEN tag ELSE d[i]]

\* list(range(lo, hi))
RECURSIVE PyRange(_, _)
PyRange(lo, hi) == IF lo >= hi THEN <<>> ELSE <<lo>> \o PyRange(lo + 1, hi)

\* all(disk[i + j] == 'free' for j in range(size))
WindowFree(d, i, size) == \A j \in 0..(size - 1) : d[i + j] = "free"

\* for i in range(disk_size - size + 1), from i on: the first i whose window
\* is free, as <<i>>, or <<>> when the loop ends without one
RECURSIVE FirstWindow(_, _, _)
FirstWindow(d, size, i) ==
    IF i >= disk_size - size + 1 THEN <<>>
    ELSE IF WindowFree(d, i, size) THEN <<i>>
    ELSE FirstWindow(d, size, i + 1)

\* allocate_contiguous: [disk', blocks]
allocate_contiguous(d, file_name, size) ==
    LET w == FirstWindow(d, size, 0)
    IN  IF w = <<>> THEN [disk |-> d, blocks |-> <<>>]
        ELSE LET blks == PyRange(w[1], w[1] + size)
             IN  [disk |-> Mark(d, blks, file_name), blocks |-> blks]

\* allocate_linked: [disk', blocks]
allocate_linked(d, file_name, size) ==
    LET free == get_free_blocks(d)
    IN  IF Len(free) >= size
        THEN [disk |-> Mark(d, PySlice(free, 0, size), file_name),
              blocks |-> PySlice(free, 0, size)]
        ELSE [disk |-> d, blocks |-> <<>>]

\* allocate_indexed: [disk', index, blocks, raised]; index is <<>> for None;
\* free[0] of an empty list raises IndexError before anything is marked
allocate_indexed(d, file_name, size) ==
    LET free == get_free_blocks(d)
    IN  IF Len(free) >= size + 1
        THEN IF Len(free) = 0
             THEN [disk |-> d, index |-> <<>>, blocks |-> <<>>, raised |-> TRUE]
             ELSE LET index_block == free[1]
                      data_blocks == PySlice(free, 1, size + 1)
                  IN  [disk |-> Mark(Mark(d, <<index_block>>, file_name),
                                     data_blocks, file_name),
                       index |-> <<index_block>>, blocks |-> data_blocks,
                       raised |-> FALSE]
        ELSE [disk |-> d, index |-> <<>>, blocks |-> <<>>, raised |-> FALSE]

\* the directory with d[name] = entry
Put(fd, name, entry) ==
    [n \in DOMAIN fd \cup {name} |-> IF n = name THEN entry ELSE fd[n]]

\* del fd[name]
Del(fd, name) == [n \in DOMAIN fd \ {name} |-> fd[n]]

\* the dictionary create_file stores for a new file
NewEntry(file_size, method, blocks, index, ftype, content, owner, t1, t2) ==
    [size |-> file_size, method |-> method, blocks |-> blocks, type |-> ftype,
     content |-> content,
     index |-> IF method = "Indexed" THEN index ELSE <<>>,
     created_at |-> t1, last_modified |-> t2, owner |-> owner,
     permissions |-> [read |-> <<owner>>, write |-> <<owner>>,
                      delete |-> <<owner>>]]

\* save_state(data): the snapshot file holds a copy of data
save_state(d, fd) == <<[disk |-> d, file_directory |-> fd]>>

\* module start: disk and file_directory are the snapshot's when there is one
Startup(sv) ==
    IF sv # <<>>
    THEN [disk |-> sv[1].disk, file_directory |-> sv[1].file_directory]
    ELSE [disk |-> [i \in Blocks |-> "free"], file_directory |-> <<>>]

\* the record of a call
Call(op, name, size, method, ret) ==
    [op |-> op, name |-> name, size |-> size, method |-> method, ret |-> ret,
     content |-> ""]

\* the allocator create_file picks for method, as [disk, index, blocks, raised]
Allocate(d, file_name, file_size, method) ==
    IF method = "Contiguous"
    THEN LET r == allocate_contiguous(d, file_name, file_size)
         IN  [disk |-> r.disk, index |-> <<>>, blocks |-> r.blocks,
              raised |-> FALSE]
    ELSE IF method = "Linked"
    THEN LET r == allocate_linked(d, file_name, file_size)
         IN  [disk |-> r.disk, index |-> <<>>, blocks |-> r.blocks,
              raised |-> FALSE]
    ELSE allocate_indexed(d, file_name, file_size)

\* create_file(file_name, file_size, method, ftype, content, owner='admin')
create_file(file_name, file_size, method, content) ==
    IF file_name \in DOMAIN file_directory
    THEN /\ call' = Call("create", file_name, file_size, method, "False")
         /\ UNCHANGED <<disk, file_directory, saved, now>>
    ELSE LET r == Allocate(disk, file_name, file_size, method)
         IN  IF r.raised
             THEN /\ call' = Call("create", file_name, file_size, method,
                                  "IndexError")
                  /\ UNCHANGED <<disk, file_directory, saved, now>>
             ELSE IF r.blocks = <<>>
             THEN /\ disk' = r.disk
                  /\ call' = Call("create", file_name, file_size, method,
                                  "False")
                  /\ UNCHANGED <<file_directory, saved, now>>
             ELSE \E t1 \in now..MaxTime : \E t2 \in t1..MaxTime :
                  /\ disk' = r.disk
                  /\ file_directory' =
                        Put(file_directory, file_name,
                            NewEntry(file_size, method, r.blocks, r.index,
                                     "Text", content, "admin", t1, t2))
                  /\ saved' = save_state(disk', file_directory')
                  /\ now' = t2
                  /\ call' = Call("create", file_name, file_size, method,
                                  "True")

\* delete_file as it would be if it saved the state for an absent name too
delete_file_AlwaysSaves(file_name) ==
    IF file_name \in DOMAIN file_directory
    THEN LET e == file_directory[file_name]
             d1 == Mark(disk, e.blocks, "free")
             d2 == IF e.method = "Indexed" /\ e.index # <<>>
                   THEN Mark(d1, e.index, "free") ELSE d1
         IN  /\ disk' = d2
             /\ file_directory' = Del(file_directory, file_name)
             /\ saved' = save_state(disk', file_directory')
             /\ call' = Call("delete", file_name, 0, "", "None")
             /\ UNCHANGED now
    ELSE /\ call' = Call("delete", file_name, 0, "", "None")
         /\ saved' = save_state(disk, file_directory)
         /\ UNCHANGED <<disk, file_directory, now>>

\* delete_file(file_name)
delete_file(file_name) ==
    IF file_name \in DOMAIN file_directory
    THEN LET e == file_directory[file_name]
             d1 == Mark(disk, e.blocks, "free")
             d2 == IF e.method = "Indexed" /\ e.index # <<>>
                   THEN Mark(d1, e.index, "free") ELSE d1
         IN  /\ disk' = d2
             /\ file_directory' = Del(file_directory, file_name)
             /\ saved' = save_state(disk', file_directory')
             /\ call' = Call("delete", file_name, 0, "", "None")
             /\ UNCHANGED now
    ELSE /\ call' = Call("delete", file_name, 0, "", "None")
         /\ UNCHANGED <<disk, file_directory, saved, now>>

\* update_file_content as it would be if it also refreshed created_at
update_file_content_NewCreatedAt(file_name, new_content) ==
    IF file_name \in DOMAIN file_directory
    THEN \E t \in now..MaxTime :
         /\ file_directory' =
               Put(file_directory, file_name,
                   [file_directory[file_name] EXCEPT !.content = new_content,
                                                     !.last_modified = t,
                                                     !.created_at = t])
         /\ saved' = save_state(disk, file_directory')
         /\ now' = t
         /\ call' = [Call("update", file_name, 0, "", "True")
                        EXCEPT !.content = new_content]
         /\ UNCHANGED disk
    ELSE /\ call' = [Call("update", file_name, 0, "", "False")
                        EXCEPT !.content = new_content]
         /\ UNCHANGED <<disk, file_directory, saved, now>>

\* update_file_content(file_name, new_content)
update_file_content(file_name, new_content) ==
    IF file_name \in DOMAIN file_directory
    THEN \E t \in now..MaxTime :
         /\ file_directory' =
               Put(file_directory, file_name,
                   [file_directory[file_name] EXCEPT !.content = new_content,
                                                     !.last_modified = t])
         /\ saved' = save_state(disk, file_directory')
         /\ now' = t
         /\ call' = [Call("update", file_name, 0, "", "True")
                        EXCEPT !.content = new_content]
         /\ UNCHANGED disk
    ELSE /\ call' = [Call("update", file_name, 0, "", "False")
                        EXCEPT !.content = new_content]
         /\ UNCHANGED <<disk, file_directory, saved, now>>

\* get_file_content(file_name): <<content>>, or <<>> for None
get_file_content(fd, file_name) ==
    IF file_name \in DOMAIN fd THEN <<fd[file_name].content>> ELSE <<>>

\* check_permission(file_name, action, user)
check_permission(fd, file_name, action, user) ==
    IF file_name \in DOMAIN fd
    THEN user \in Range(fd[file_name].permissions[action])
    ELSE FALSE

(***************************************************************************)
(* disk_scheduler.py                                                       *)
(***************************************************************************)
\* fcfs_scheduling: [start] + requests
fcfs_scheduling(reqs, st) == <<st>> \o reqs

\* min(remaining, key=lambda x: abs(x - current)) scanning from index i with
\* best the first minimum so far: a later element replaces it only when its
\* key is strictly smaller
RECURSIVE MinByDistance(_, _, _, _)
MinByDistance(remaining, current, i, best) ==
    IF i > Len(remaining) THEN best
    ELSE IF Abs(remaining[i] - current) < Abs(best - current)
    THEN MinByDistance(remaining, current, i + 1, remaining[i])
    ELSE MinByDistance(remaining, current, i + 1, best)

\* min() as it would be with the last minimum winning: a later element
\* replaces the best one also when its key is equal
RECURSIVE MinByDistanceLast(_, _, _, _)
MinByDistanceLast(remaining, current, i, best) ==
    IF i > Len(remaining) THEN best
    ELSE IF Abs(remaining[i] - current) <= Abs(best - current)
    THEN MinByDistanceLast(remaining, current, i + 1, remaining[i])
    ELSE MinByDistanceLast(remaining, current, i + 1, best)

Nearest_LastMinimum(remaining, current) ==
    MinByDistanceLast(remaining, current, 2, remaining[1])

\* the element sstf_scheduling takes next from a non-empty remaining list
Nearest(remaining, current) ==
    MinByDistance(remaining, current, 2, remaining[1])

\* remaining.remove(x): the list without the first element equal to x
RECURSIVE Remove(_, _)
Remove(s, x) ==
    IF s = <<>> THEN <<>>
    ELSE IF Head(s) = x THEN Tail(s)
    ELSE <<Head(s)>> \o Remove(Tail(s), x)

\* the while loop of sstf_scheduling
RECURSIVE SstfLoop(_, _, _)
SstfLoop(seq, remaining, current) ==
    IF remaining = <<>> THEN seq
    ELSE LET nearest == Nearest(remaining, current)
         IN  SstfLoop(Append(seq, nearest), Remove(remaining, nearest), nearest)

\* sstf_scheduling
sstf_scheduling(reqs, st) == SstfLoop(<<st>>, reqs, st)

\* sorted(S) of a set of integers
RECURSIVE Sorted(_)
Sorted(S) ==
    IF S = {} THEN <<>>
    ELSE LET m == CHOOSE x \in S : \A y \in S : x <= y
         IN  <<m>> \o Sorted(S \ {m})

\* reversed(s)
RECURSIVE Reversed(_)
Reversed(s) == IF s = <<>> THEN <<>> ELSE Append(Reversed(Tail(s)), Head(s))

\* positions = sorted(set(requests))
Positions(reqs) == Sorted(Range(reqs))

\* up_requests as it would be with r >= start
up_requests_WithStart(reqs, st) ==
    LET above(r) == r >= st IN SelectSeq(Positions(reqs), above)

\* up_requests = [r for r in positions if r > start]
up_requests(reqs, st) ==
    LET above(r) == r > st IN SelectSeq(Positions(reqs), above)

\* down_requests = [r for r in positions if r < start]
down_requests(reqs, st) ==
    LET below(r) == r < st IN SelectSeq(Positions(reqs), below)

\* scan_scheduling
scan_scheduling(reqs, st, dir) ==
    IF reqs = <<>> THEN <<st>>
    ELSE IF dir = "up"
    THEN <<st>> \o up_requests(reqs, st) \o Reversed(down_requests(reqs, st))
    ELSE <<st>> \o Reversed(down_requests(reqs, st)) \o up_requests(reqs, st)

\* c_scan_scheduling as it would be without the jump to the beginning
c_scan_scheduling_NoJump(reqs, st) ==
    IF reqs = <<>> THEN <<st>>
    ELSE <<st>> \o up_requests(reqs, st) \o down_requests(reqs, st)

\* c_scan_scheduling
c_scan_scheduling(reqs, st) ==
    IF reqs = <<>> THEN <<st>>
    ELSE IF down_requests(reqs, st) # <<>>
    THEN <<st>> \o up_requests(reqs, st) \o <<0>> \o down_requests(reqs, st)
    ELSE <<st>> \o up_requests(reqs, st)

\* look_scheduling as it would be with down_requests not reversed
look_scheduling_NotReversed(reqs, st, dir) ==
    IF reqs = <<>> THEN <<st>>
    ELSE IF dir = "up"
    THEN <<st>> \o up_requests(reqs, st) \o down_requests(reqs, st)
    ELSE <<st>> \o down_requests(reqs, st) \o up_requests(reqs, st)

\* look_scheduling
look_scheduling(reqs, st, dir) ==
    IF reqs = <<>> THEN <<st>>
    ELSE IF dir = "up"
    THEN <<st>> \o up_requests(reqs, st) \o Reversed(down_requests(reqs, st))
    ELSE <<st>> \o Reversed(down_requests(reqs, st)) \o up_requests(reqs, st)

\* c_look_scheduling
c_look_scheduling(reqs, st) ==
    IF reqs = <<>> THEN <<st>>
    ELSE IF down_requests(reqs, st) # <<>>
    THEN <<st>> \o up_requests(reqs, st) \o down_requests(reqs, st)
    ELSE <<st>> \o up_requests(reqs, st)

\* sum(abs(sequence[i] - sequence[i - 1]) for i in range(1, len(sequence)))
RECURSIVE SumOfMoves(_)
SumOfMoves(seq) ==
    IF Len(seq) <= 1 THEN 0
    ELSE Abs(seq[2] - seq[1]) + SumOfMoves(Tail(seq))

\* the head movement as it would be summed without abs()
RECURSIVE head_movement_Signed(_)
head_movement_Signed(seq) ==
    IF Len(seq) <= 1 THEN 0
    ELSE (seq[2] - seq[1]) + head_movement_Signed(Tail(seq))

\* visualize_disk_scheduling: head_movement
head_movement(seq) == SumOfMoves(seq)

(***************************************************************************)
(* process_manager.py.  A process is its number in the order of creation;  *)
(* P maps it to the fields of the Process object that decide the order     *)
(* and the status.  A heap is a Python list: element i of the list is      *)
(* element i + 1 of the sequence.                                          *)
(***************************************************************************)
Algorithms == {"priority", "fcfs", "round_robin", "sjf"}
Priorities == 0..MaxPriority

\* Process.__init__
NewProcess(priority, t) ==
    [priority |-> priority, timestamp |-> t, status |-> "waiting"]

\* Process.__lt__
Process_lt(P, a, b) ==
    IF P[a].priority # P[b].priority
    THEN P[a].priority < P[b].priority
    ELSE P[a].timestamp < P[b].timestamp

\* Process.start
Process_start(P, a) == [P EXCEPT ![a].status = "running"]

\* Process.complete
Process_complete(P, a) == [P EXCEPT ![a].status = "completed"]

\* heapq._siftdown: the loop, with newitem taken out of heap[pos]
RECURSIVE SiftDownLoop(_, _, _, _, _)
SiftDownLoop(P, heap, startpos, pos, newitem) ==
    IF pos > startpos
    THEN LET parentpos == (pos - 1) \div 2
             parent == heap[parentpos + 1]
         IN  IF Process_lt(P, newitem, parent)
             THEN SiftDownLoop(P, [heap EXCEPT ![pos + 1] = parent],
                               startpos, parentpos, newitem)
             ELSE [heap EXCEPT ![pos + 1] = newitem]
    ELSE [heap EXCEPT ![pos + 1] = newitem]

\* heapq._siftdown(heap, startpos, pos)
SiftDown(P, heap, startpos, pos) ==
    SiftDownLoop(P, heap, startpos, pos, heap[pos + 1])

\* heapq._siftup: the loop, then _siftdown of newitem from the leaf
RECURSIVE SiftUpLoop(_, _, _, _, _, _)
SiftUpLoop(P, heap, startpos, pos, childpos, newitem) ==
    IF childpos < Len(heap)
    THEN LET rightpos == childpos + 1
             c == IF /\ rightpos < Len(heap)
                     /\ ~Process_lt(P, heap[childpos + 1], heap[rightpos + 1])
                  THEN rightpos ELSE childpos
         IN  SiftUpLoop(P, [heap EXCEPT ![pos + 1] = heap[c + 1]],
                        startpos, c, 2 * c + 1, newitem)
    ELSE SiftDown(P, [heap EXCEPT ![pos + 1] = newitem], startpos, pos)

\* heapq._siftup(heap, pos)
SiftUp(P, heap, pos) ==
    SiftUpLoop(P, heap, pos, pos, 2 * pos + 1, heap[pos + 1])

\* heapq.heappush(heap, item)
heappush(P, heap, item) == SiftDown(P, Append(heap, item), 0, Len(heap))

\* heapq.heappop(heap) of a non-empty heap: the item returned and the heap left
heappop(P, heap) ==
    LET lastelt == heap[Len(heap)]
        rest == SubSeq(heap, 1, Len(heap) - 1)
    IN  IF rest # <<>>
        THEN [item |-> rest[1],
              heap |-> SiftUp(P, [rest EXCEPT ![1] = lastelt], 0)]
        ELSE [item |-> lastelt, heap |-> rest]

\* list.pop(0) of a non-empty list
pop0(q) == [item |-> Head(q), heap |-> Tail(q)]

\* ProcessManager.add_process: the queue after it
add_process(P, alg, q, process) ==
    IF alg = "priority" THEN heappush(P, q, process)
    ELSE IF alg = "fcfs" THEN Append(q, process)
    ELSE IF alg = "sjf" THEN heappush(P, q, process)
    ELSE heappush(P, q, process)

\* the state of a ProcessManager and its processes, with a return value
PM(P, q, comp, cur, ret) ==
    [procs |-> P, queue |-> q, completed |-> comp, current_process |-> cur,
     ret |-> ret]

\* ProcessManager.get_next_process; ret is the process returned, 0 for None
get_next_process(alg, pm) ==
    IF pm.queue = <<>>
    THEN PM(pm.procs, pm.queue, pm.completed, pm.current_process, 0)
    ELSE LET cur == pm.current_process
             P1 == IF cur # 0 THEN Process_complete(pm.procs, cur)
                   ELSE pm.procs
             comp1 == IF cur # 0 THEN Append(pm.completed, cur)
                      ELSE pm.completed
             next == IF alg = "priority" \/ alg = "sjf"
                     THEN heappop(P1, pm.queue)
                     ELSE IF alg = "fcfs" THEN pop0(pm.queue)
                     ELSE IF alg = "round_robin" THEN pop0(pm.queue)
                     ELSE heappop(P1, pm.queue)
         IN  PM(Process_start(P1, next.item), next.heap, comp1, next.item,
                next.item)

\* ProcessManager.change_algorithm: the loop re-adding old_queue
RECURSIVE ReAdd(_, _, _, _)
ReAdd(P, alg, q, old_queue) ==
    IF old_queue = <<>> THEN q
    ELSE ReAdd(P, alg, add_process(P, alg, q, Head(old_queue)),
               Tail(old_queue))

\* ProcessManager.change_algorithm: the queue after it, for a valid name
change_algorithm(P, new_algorithm, q) == ReAdd(P, new_algorithm, <<>>, q)

\* the loop of 'Execute All': get_next_process until it returns None;
\* gives the state after the loop and the number of processes executed
RECURSIVE ExecuteAllLoop(_, _, _)
ExecuteAllLoop(alg, pm, executed) ==
    LET r == get_next_process(alg, pm)
    IN  IF r.ret = 0 THEN [pm |-> r, executed |-> executed]
        ELSE ExecuteAllLoop(alg, r, executed + 1)

\* ProcessManager(): the state after construction, no process created
PMIdle ==
    /\ procs = <<>>
    /\ queue = <<>>
    /\ completed = <<>>
    /\ scheduling_algorithm = "priority"
    /\ current_process = 0
    /\ pmcall = [op |-> "init", ret |-> 0, raised |-> FALSE]

(***************************************************************************)
(* The file manager as a state machine: any sequence of calls.             *)
(***************************************************************************)
SchedIdle ==
    /\ requests = <<>>
    /\ start = 0
    /\ direction = "up"
    /\ algorithm = "none"
    /\ sequence = <<>>

FsIdle ==
    /\ disk = [i \in Blocks |-> "free"]
    /\ file_directory = <<>>
    /\ saved = <<>>
    /\ now = 0
    /\ call = Call("init", "", 0, "", "None")
    /\ ncalls = 0

Init == FsIdle /\ SchedIdle /\ PMIdle

CreateFile ==
    /\ ncalls < MaxCalls
    /\ ncalls' = ncalls + 1
    /\ \E n \in Names, s \in Sizes, m \in Methods, c \in NewContents :
          create_file(n, s, m, c)
    /\ UNCHANGED <<schedvars, pmvars>>

DeleteFile ==
    /\ ncalls < MaxCalls
    /\ ncalls' = ncalls + 1
    /\ \E n \in Names : delete_file(n)
    /\ UNCHANGED <<schedvars, pmvars>>

UpdateFileContent ==
    /\ ncalls < MaxCalls
    /\ ncalls' = ncalls + 1
    /\ \E n \in Names, c \in Contents : update_file_content(n, c)
    /\ UNCHANGED <<schedvars, pmvars>>

Next == CreateFile \/ DeleteFile \/ UpdateFileContent

Spec == Init /\ [][Next]_vars

(***************************************************************************)
(* The disk scheduler: each function applied to every request list and     *)
(* start position (and direction) of the bounded input sets.               *)
(***************************************************************************)
Positions0 == 0..MaxPos
RequestLists == UNION {[1..n -> Positions0] : n \in 0..MaxReq}

SchedInit ==
    /\ FsIdle
    /\ PMIdle
    /\ requests \in RequestLists
    /\ start \in Positions0
    /\ direction \in {"up", "down"}
    /\ algorithm = "none"
    /\ sequence = <<>>

RunFCFS ==
    /\ algorithm = "none"
    /\ algorithm' = "FCFS"
    /\ sequence' = fcfs_scheduling(requests, start)
    /\ UNCHANGED <<requests, start, direction>>
    /\ UNCHANGED <<fsvars, pmvars>>

RunSSTF ==
    /\ algorithm = "none"
    /\ algorithm' = "SSTF"
    /\ sequence' = sstf_scheduling(requests, start)
    /\ UNCHANGED <<requests, start, direction>>
    /\ UNCHANGED <<fsvars, pmvars>>

RunSCAN ==
    /\ algorithm = "none"
    /\ algorithm' = "SCAN"
    /\ sequence' = scan_scheduling(requests, start, direction)
    /\ UNCHANGED <<requests, start, direction>>
    /\ UNCHANGED <<fsvars, pmvars>>

RunCSCAN ==
    /\ algorithm = "none"
    /\ algorithm' = "C-SCAN"
    /\ sequence' = c_scan_scheduling(requests, start)
    /\ UNCHANGED <<requests, start, direction>>
    /\ UNCHANGED <<fsvars, pmvars>>

RunLOOK ==
    /\ algorithm = "none"
    /\ algorithm' = "LOOK"
    /\ sequence' = look_scheduling(requests, start, direction)
    /\ UNCHANGED <<requests, start, direction>>
    /\ UNCHANGED <<fsvars, pmvars>>

RunCLOOK ==
    /\ algorithm = "none"
    /\ algorithm' = "C-LOOK"
    /\ sequence' = c_look_scheduling(requests, start)
    /\ UNCHANGED <<requests, start, direction>>
    /\ UNCHANGED <<fsvars, pmvars>>

SchedNext == RunFCFS \/ RunSSTF \/ RunSCAN \/ RunCSCAN \/ RunLOOK \/ RunCLOOK

SchedSpec == SchedInit /\ [][SchedNext]_vars

(***************************************************************************)
(* The process manager as a state machine: the calls the process page      *)
(* makes on one ProcessManager, in any order.                              *)
(***************************************************************************)
\* the state of the ProcessManager as a record
ThePM == PM(procs, queue, completed, current_process, 0)

\* what a call of the process manager leaves alone
PMFrame == UNCHANGED <<disk, file_directory, saved, call, ncalls, schedvars>>

PMInit == FsIdle /\ SchedIdle /\ PMIdle

\* Process(pid, action, file, priority) and add_process(process)
AddProcess ==
    /\ Len(procs) < MaxProcs
    /\ \E priority \in Priorities, t \in now..MaxStamp :
          LET process == Len(procs) + 1
              P1 == Append(procs, NewProcess(priority, t))
          IN  /\ procs' = P1
              /\ queue' = add_process(P1, scheduling_algorithm, queue, process)
              /\ now' = t
              /\ pmcall' = [op |-> "add_process", ret |-> process,
                            raised |-> FALSE]
    /\ UNCHANGED <<completed, scheduling_algorithm, current_process>>
    /\ PMFrame

\* 'Execute Next': one call of get_next_process
GetNextProcess ==
    /\ LET r == get_next_process(scheduling_algorithm, ThePM)
       IN  /\ procs' = r.procs
           /\ queue' = r.queue
           /\ completed' = r.completed
           /\ current_process' = r.current_process
           /\ pmcall' = [op |-> "get_next_process", ret |-> r.ret,
                         raised |-> FALSE]
    /\ UNCHANGED <<scheduling_algorithm, now>>
    /\ PMFrame

\* 'Execute All': get_next_process until it returns None
ExecuteAll ==
    /\ LET r == ExecuteAllLoop(scheduling_algorithm, ThePM, 0)
       IN  /\ procs' = r.pm.procs
           /\ queue' = r.pm.queue
           /\ completed' = r.pm.completed
           /\ current_process' = r.pm.current_process
           /\ pmcall' = [op |-> "execute_all", ret |-> r.executed,
                         raised |-> FALSE]
    /\ UNCHANGED <<scheduling_algorithm, now>>
    /\ PMFrame

\* change_algorithm(new_algorithm); a name that is not valid raises ValueError
ChangeAlgorithm ==
    /\ \E new_algorithm \in Algorithms \cup {"invalid"} :
          IF new_algorithm \notin Algorithms
          THEN /\ pmcall' = [op |-> "change_algorithm", ret |-> 0,
                             raised |-> TRUE]
               /\ UNCHANGED <<queue, scheduling_algorithm>>
          ELSE /\ queue' = change_algorithm(procs, new_algorithm, queue)
               /\ scheduling_algorithm' = new_algorithm
               /\ pmcall' = [op |-> "change_algorithm", ret |-> 0,
                             raised |-> FALSE]
    /\ UNCHANGED <<procs, completed, current_process, now>>
    /\ PMFrame

PMNext == AddProcess \/ GetNextProcess \/ ExecuteAll \/ ChangeAlgorithm

PMSpec == PMInit /\ [][PMNext]_vars

(***************************************************************************)
(* Notions the statements about the file manager share.                    *)
(***************************************************************************)
\* block b is owned by file n: it carries n's tag and is not free
Owns(d, b, n) == d[b] = n /\ d[b] # "free"

\* the blocks the directory records for an entry: its data blocks and, for
\* an Indexed file, its index block
RecordedSet(e) == Range(e.blocks) \cup Range(e.index)

\* the number of blocks the directory records for the files of S, counting
\* one more for each Indexed file
RECURSIVE RecordedCount(_, _)
RecordedCount(fd, S) ==
    IF S = {} THEN 0
    ELSE LET n == CHOOSE x \in S : TRUE
         IN  Len(fd[n].blocks) + (IF fd[n].method = "Indexed" THEN 1 ELSE 0)
             + RecordedCount(fd, S \ {n})

\* the step is a call of create_file / of delete_file
IsCreate == call'.op = "create" /\ ncalls' = ncalls + 1
IsDelete == call'.op = "delete" /\ ncalls' = ncalls + 1

\* the start indices of the windows of s consecutive free blocks of d
Windows(d, s) ==
    {i \in 0..(disk_size - s) : \A j \in 0..(s - 1) : d[i + j] = "free"}

\* the free block indices of d, as a set
FreeSet(d) == {b \in Blocks : d[b] = "free"}

\* sequence q lists exactly the k smallest elements of S, ascending
IsLowest(q, k, S) ==
    /\ Len(q) = k
    /\ Range(q) \subseteq S
    /\ \A i \in 1..(Len(q) - 1) : q[i] < q[i + 1]
    /\ \A x \in S \ Range(q) : \A y \in Range(q) : y < x

(***************************************************************************)
(* C1. Block accounting: in every reachable state, the number of blocks    *)
(* recorded for the files of the directory (one more per Indexed file for  *)
(* its index block) plus the free count equals disk_size.                  *)
(***************************************************************************)
C1_BlockAccounting ==
    RecordedCount(file_directory, DOMAIN file_directory)
        + get_free_block_count(disk) = disk_size

(***************************************************************************)
(* C2. Ownership consistency: in every reachable state each block is       *)
(* either free or tagged with the name of a file of the directory (never   *)
(* both), the blocks tagged with a file's name are exactly its recorded    *)
(* data blocks plus its index block, and no block is recorded for two      *)
(* files.                                                                  *)
(***************************************************************************)
C2_OwnershipConsistency ==
    /\ \A b \in Blocks :
          (disk[b] = "free") # (disk[b] \in DOMAIN file_directory)
    /\ \A n \in DOMAIN file_directory :
          {b \in Blocks : disk[b] = n} = RecordedSet(file_directory[n])
    /\ \A n, m \in DOMAIN file_directory :
          n # m => RecordedSet(file_directory[n])
                      \cap RecordedSet(file_directory[m]) = {}

(***************************************************************************)
(* C3. All-or-nothing creation: a create_file call that returns False      *)
(* leaves the disk and the directory as they were.                         *)
(***************************************************************************)
C3_AllOrNothing ==
    [][(IsCreate /\ call'.ret = "False")
          => (disk' = disk /\ file_directory' = file_directory)]_vars

\* what a step that is a Contiguous create_file call of a new name with a
\* size >= 1 does
ContiguousStep ==
    (/\ IsCreate
     /\ call'.method = "Contiguous"
     /\ call'.size >= 1
     /\ call'.name \notin DOMAIN file_directory)
    => LET n == call'.name
           s == call'.size
           W == Windows(disk, s)
       IN  /\ (call'.ret = "True") <=> (W # {})
           /\ (call'.ret # "True") => (call'.ret = "False")
           /\ (call'.ret = "True") =>
                 LET i == CHOOSE x \in W : \A y \in W : x <= y
                 IN  /\ file_directory'[n].blocks = [k \in 1..s |-> i + k - 1]
                     /\ \A b \in Blocks :
                           IF b \in i..(i + s - 1)
                           THEN disk[b] = "free" /\ Owns(disk', b, n)
                           ELSE disk'[b] = disk[b]

(***************************************************************************)
(* C4. Contiguous first-fit: create_file(n, s, Contiguous) for a new name  *)
(* n and s >= 1 succeeds iff a window of s consecutive free blocks exists; *)
(* on success the recorded blocks are i..i+s-1 for the smallest free       *)
(* window start i, exactly those blocks go from free to owned by n, and    *)
(* every other block is unchanged.                                         *)
(***************************************************************************)
C4_ContiguousFirstFit == [][ContiguousStep]_vars

\* what a step that is an Indexed create_file call of a new name with a
\* size >= 1 does
IndexedStep ==
    (/\ IsCreate
     /\ call'.method = "Indexed"
     /\ call'.size >= 1
     /\ call'.name \notin DOMAIN file_directory)
    => LET n == call'.name
           s == call'.size
           F == FreeSet(disk)
       IN  /\ (call'.ret = "True") <=> (Cardinality(F) >= s + 1)
           /\ (call'.ret = "True") =>
                 LET e == file_directory'[n]
                 IN  /\ Len(e.index) = 1
                     /\ IsLowest(e.index, 1, F)
                     /\ IsLowest(e.blocks, s, F \ Range(e.index))
                     /\ e.index[1] \notin Range(e.blocks)
                     /\ \A b \in RecordedSet(e) : Owns(disk', b, n)

(***************************************************************************)
(* C5. Indexed allocation: create_file(n, s, Indexed) for a new name n and *)
(* s >= 1 succeeds iff at least s+1 blocks are free; on success the index  *)
(* block is the lowest free block, the data blocks are the next s free     *)
(* blocks ascending, the index block is not among the data blocks, and all *)
(* s+1 blocks are owned by n.                                              *)
(***************************************************************************)
C5_IndexedAllocation == [][IndexedStep]_vars

\* what a step that is a Linked create_file call of a new name with a
\* size >= 1 does
LinkedStep ==
    (/\ IsCreate
     /\ call'.method = "Linked"
     /\ call'.size >= 1
     /\ call'.name \notin DOMAIN file_directory)
    => LET n == call'.name
           s == call'.size
           F == FreeSet(disk)
       IN  /\ (call'.ret = "True") <=> (Cardinality(F) >= s)
           /\ (call'.ret = "True") =>
                 LET e == file_directory'[n]
                 IN  /\ IsLowest(e.blocks, s, F)
                     /\ \A b \in Range(e.blocks) : Owns(disk', b, n)

(***************************************************************************)
(* C6. Linked allocation: create_file(n, s, Linked) for a new name n and   *)
(* s >= 1 succeeds iff at least s blocks are free; on success the recorded *)
(* blocks are the s lowest free blocks, ascending, and they are owned by   *)
(* n.                                                                      *)
(***************************************************************************)
C6_LinkedAllocation == [][LinkedStep]_vars

(***************************************************************************)
(* The three allocation statements hold of every file name other than      *)
(* "free", in every reachable state.                                       *)
(***************************************************************************)
ContiguousFirstFit_OtherNames ==
    [][call'.name # "free" => ContiguousStep]_vars
IndexedAllocation_OtherNames ==
    [][call'.name # "free" => IndexedStep]_vars
LinkedAllocation_OtherNames ==
    [][call'.name # "free" => LinkedStep]_vars

(***************************************************************************)
(* C7. Delete effect: delete_file(n) of an existing file frees exactly the *)
(* blocks n owned before the call, which are its recorded data blocks and  *)
(* index block, leaves every other block and every other entry unchanged,  *)
(* and removes the entry, so that get_file_content and check_permission    *)
(* report n as absent.                                                     *)
(***************************************************************************)
C7_DeleteEffect ==
    [][(IsDelete /\ call'.name \in DOMAIN file_directory)
       => LET n == call'.name
              owned == {b \in Blocks : Owns(disk, b, n)}
          IN  /\ owned = RecordedSet(file_directory[n])
              /\ \A b \in Blocks :
                    disk'[b] = IF b \in owned THEN "free" ELSE disk[b]
              /\ DOMAIN file_directory' = DOMAIN file_directory \ {n}
              /\ \A m \in DOMAIN file_directory' :
                    file_directory'[m] = file_directory[m]
              /\ get_file_content(file_directory', n) = <<>>
              /\ ~check_permission(file_directory', n, "read", "admin")]_vars

(***************************************************************************)
(* C8. Non-positive size: create_file with a size <= 0 returns False (it   *)
(* raises nothing) and inserts no directory entry.                         *)
(***************************************************************************)
C8_NonPositiveSize ==
    [][(IsCreate /\ call'.size <= 0)
       => (call'.ret = "False" /\ file_directory' = file_directory)]_vars

(***************************************************************************)
(* Notions the statements about the disk scheduler share.                  *)
(***************************************************************************)
\* the number of occurrences of x in sequence s
Count(s, x) == Cardinality({i \in 1..Len(s) : s[i] = x})

\* the part of the returned sequence after its first element
Visits == Tail(sequence)

\* some request lies below the start position
Wraps == \E i \in 1..Len(requests) : requests[i] < start

\* the permutations of 1..n
Perms(n) ==
    {f \in [1..n -> 1..n] : \A i, j \in 1..n : f[i] = f[j] => i = j}

(***************************************************************************)
(* C9 as stated. Access-sequence shape: the sequence any of the six        *)
(* functions returns begins with the start position and is followed by     *)
(* every requested position exactly once (duplicates collapsing), with no  *)
(* other position in it.                                                   *)
(***************************************************************************)
C9_AccessSequenceShape ==
    algorithm # "none" =>
        /\ Len(sequence) >= 1
        /\ sequence[1] = start
        /\ Range(Visits) = Range(requests)
        /\ \A x \in Range(Visits) : Count(Visits, x) = 1

(***************************************************************************)
(* C9 amended. The sequence begins with the start position. After it,      *)
(* FCFS and SSTF visit every request once per occurrence in the request    *)
(* list (duplicates are not collapsed); SCAN, LOOK and C-LOOK visit every  *)
(* distinct requested position other than the start position exactly once  *)
(* and nothing else; C-SCAN does the same and, when some request is below  *)
(* the start position, visits position 0 once more.                        *)
(***************************************************************************)
C9_AccessSequenceShapeAmended ==
    algorithm # "none" =>
        /\ Len(sequence) >= 1
        /\ sequence[1] = start
        /\ \A x \in Range(Visits) \cup Range(requests) \cup {0} :
              Count(Visits, x) =
                 IF algorithm \in {"FCFS", "SSTF"}
                 THEN Count(requests, x)
                 ELSE (IF x \in Range(requests) /\ x # start THEN 1 ELSE 0)
                      + (IF algorithm = "C-SCAN" /\ Wraps /\ x = 0
                         THEN 1 ELSE 0)

\* C-SCAN has wrapped over a requested position 0, which it visits twice,
\* with a request equal to the start position dropped
C9_Witness ==
    /\ algorithm = "C-SCAN"
    /\ Count(Visits, 0) = 2
    /\ start \in Range(requests)
    /\ start \notin Range(Visits)

(***************************************************************************)
(* C10. SSTF greedy order: sstf_scheduling returns the start position      *)
(* followed by a permutation of the request list in which every element    *)
(* is, among the requests not yet emitted, at minimum distance from the    *)
(* position emitted before it, the earliest such request of the list       *)
(* being taken on a tie.                                                   *)
(***************************************************************************)
C10_SstfGreedy ==
    algorithm = "SSTF" =>
        LET n == Len(requests)
        IN  /\ Len(sequence) = n + 1
            /\ sequence[1] = start
            /\ \E pi \in Perms(n) :
                  \A k \in 1..n :
                     LET left == (1..n) \ {pi[i] : i \in 1..(k - 1)}
                         cur == sequence[k]
                         d == Abs(requests[pi[k]] - cur)
                     IN  /\ sequence[k + 1] = requests[pi[k]]
                         /\ \A j \in left : d <= Abs(requests[j] - cur)
                         /\ \A j \in left :
                               Abs(requests[j] - cur) = d => pi[k] <= j

\* SSTF has run on a list whose nearest requests are two different positions
\* at the same distance from the start, and took the one listed first
C10_Witness ==
    /\ algorithm = "SSTF"
    /\ \E i, j \in 1..Len(requests) :
          /\ i < j
          /\ requests[i] # requests[j]
          /\ Abs(requests[i] - start) = Abs(requests[j] - start)
          /\ \A k \in 1..Len(requests) :
                Abs(requests[i] - start) <= Abs(requests[k] - start)
          /\ \A k \in 1..(i - 1) :
                Abs(requests[i] - start) < Abs(requests[k] - start)
          /\ sequence[2] = requests[i]

(***************************************************************************)
(* Notions the statements about the orders of the scheduler share.         *)
(***************************************************************************)
\* the distinct requested positions above / below the start position
Above == {r \in Range(requests) : r > start}
Below == {r \in Range(requests) : r < start}

\* sequence q lists the elements of S, each once, in ascending order
IsAscending(q, S) ==
    /\ Len(q) = Cardinality(S)
    /\ Range(q) = S
    /\ \A i \in 1..(Len(q) - 1) : q[i] < q[i + 1]

\* sequence q lists the elements of S, each once, in descending order
IsDescending(q, S) ==
    /\ Len(q) = Cardinality(S)
    /\ Range(q) = S
    /\ \A i \in 1..(Len(q) - 1) : q[i] > q[i + 1]

\* elements m+1..n of the returned sequence
Part(m, n) == SubSeq(sequence, m + 1, n)

(***************************************************************************)
(* C11. C-SCAN order: c_scan_scheduling returns the start position, then   *)
(* the distinct requests above it ascending, then, if and only if some     *)
(* request is below it, position 0 followed by the distinct requests below *)
(* it ascending; requests equal to the start position are omitted, and the *)
(* direction has no influence.                                             *)
(***************************************************************************)
C11_CScanOrder ==
    algorithm = "C-SCAN" =>
        LET u == Cardinality(Above)
            b == Cardinality(Below)
        IN  /\ Len(sequence) = 1 + u + (IF b > 0 THEN 1 + b ELSE 0)
            /\ sequence[1] = start
            /\ IsAscending(Part(1, 1 + u), Above)
            /\ b > 0 => /\ sequence[u + 2] = 0
                        /\ IsAscending(Part(u + 2, u + 2 + b), Below)

\* C-SCAN has run with direction down on requests above, below and equal to
\* the start position, and jumped to 0
C11_Witness ==
    /\ algorithm = "C-SCAN"
    /\ direction = "down"
    /\ Above # {}
    /\ Below # {}
    /\ start \in Range(requests)
    /\ 0 \notin Range(requests)
    /\ 0 \in Range(sequence)

(***************************************************************************)
(* C12. SCAN/LOOK order and equivalence: scan_scheduling returns the start *)
(* position followed, for direction up, by the distinct requests above it  *)
(* ascending and then those below it descending, and for direction down    *)
(* by those below it descending and then those above it ascending,         *)
(* requests equal to the start position being dropped; look_scheduling     *)
(* returns the same sequence as scan_scheduling for the same arguments.    *)
(***************************************************************************)
C12_ScanLookOrder ==
    algorithm \in {"SCAN", "LOOK"} =>
        LET u == Cardinality(Above)
            b == Cardinality(Below)
        IN  /\ Len(sequence) = 1 + u + b
            /\ sequence[1] = start
            /\ direction = "up" =>
                  /\ IsAscending(Part(1, 1 + u), Above)
                  /\ IsDescending(Part(1 + u, 1 + u + b), Below)
            /\ direction # "up" =>
                  /\ IsDescending(Part(1, 1 + b), Below)
                  /\ IsAscending(Part(1 + b, 1 + b + u), Above)
            /\ sequence = scan_scheduling(requests, start, direction)
            /\ sequence = look_scheduling(requests, start, direction)

\* LOOK has run with direction down on two requests below, one above and
\* one equal to the start position
C12_Witness ==
    /\ algorithm = "LOOK"
    /\ direction = "down"
    /\ Cardinality(Below) >= 2
    /\ Above # {}
    /\ Len(sequence) = 1 + Cardinality(Below) + Cardinality(Above)

(***************************************************************************)
(* C13 as stated. Head movement: the total head movement of the sequence   *)
(* any of the six functions returns is non-negative, and it is 0 only when *)
(* the sequence has a single element.                                      *)
(***************************************************************************)
C13_HeadMovement ==
    algorithm # "none" =>
        /\ head_movement(sequence) >= 0
        /\ head_movement(sequence) = 0 => Len(sequence) = 1

(***************************************************************************)
(* C13 amended. The total head movement is non-negative, and it is 0 only  *)
(* when the sequence has a single element or, for FCFS and SSTF (which     *)
(* keep requests equal to the start position), when every request equals   *)
(* the start position.                                                     *)
(***************************************************************************)
C13_HeadMovementAmended ==
    algorithm # "none" =>
        /\ head_movement(sequence) >= 0
        /\ head_movement(sequence) = 0 =>
              \/ Len(sequence) = 1
              \/ /\ algorithm \in {"FCFS", "SSTF"}
                 /\ \A i \in 1..Len(requests) : requests[i] = start
        /\ (\A i \in 1..Len(sequence) : sequence[i] = start)
              => head_movement(sequence) = 0

\* FCFS has returned a sequence of several elements that never moves the head
C13_Witness ==
    /\ algorithm = "FCFS"
    /\ Len(sequence) >= 3
    /\ head_movement(sequence) = 0

(***************************************************************************)
(* Notions the statements about update, delete and the snapshot share.     *)
(***************************************************************************)
IsUpdate == call'.op = "update" /\ ncalls' = ncalls + 1

\* the fields of an entry that update_file_content is to leave alone
KeptFields ==
    {"size", "method", "blocks", "index", "type", "created_at", "owner",
     "permissions"}

(***************************************************************************)
(* C14. Snapshot consistency: after every create_file, delete_file or      *)
(* update_file_content call that changes the disk or the directory, the    *)
(* persisted snapshot holds exactly the current disk and file_directory,   *)
(* so that reloading it reproduces both.                                   *)
(***************************************************************************)
C14_SnapshotConsistency ==
    [][(disk' # disk \/ file_directory' # file_directory)
       => /\ saved' # <<>>
          /\ Startup(saved') =
                [disk |-> disk', file_directory |-> file_directory']]_vars

(***************************************************************************)
(* C15. Update effect: update_file_content(name, c) on an absent name      *)
(* returns failure and changes nothing; on an existing file it returns     *)
(* success, replaces the content and last_modified of that entry only,     *)
(* and leaves the disk, the entry's blocks, index block, size, method,     *)
(* owner, permissions and created_at, and all other entries unchanged.     *)
(***************************************************************************)
C15_UpdateEffect ==
    [][IsUpdate
       => LET n == call'.name
          IN  IF n \notin DOMAIN file_directory
              THEN /\ call'.ret = "False"
                   /\ UNCHANGED <<disk, file_directory, saved, now>>
              ELSE /\ call'.ret = "True"
                   /\ disk' = disk
                   /\ DOMAIN file_directory' = DOMAIN file_directory
                   /\ \A m \in DOMAIN file_directory \ {n} :
                         file_directory'[m] = file_directory[m]
                   /\ \A f \in KeptFields :
                         file_directory'[n][f] = file_directory[n][f]
                   /\ file_directory'[n].content = call'.content
                   /\ file_directory'[n].last_modified = now'
                   /\ now' >= now]_vars

\* an update has replaced the content of one of two files at a later time
C15_Witness ==
    /\ call.op = "update"
    /\ call.ret = "True"
    /\ Cardinality(DOMAIN file_directory) >= 2
    /\ file_directory[call.name].content = "c1"
    /\ file_directory[call.name].last_modified
          > file_directory[call.name].created_at

(***************************************************************************)
(* C16. Delete is idempotent: delete_file on a name that is not in the     *)
(* directory raises no error and changes neither the disk nor the          *)
(* directory nor the snapshot; after delete_file(n) the name n is not in   *)
(* the directory, so a second delete_file(n) leaves the state of the       *)
(* first.                                                                  *)
(***************************************************************************)
C16_DeleteIdempotent ==
    [][IsDelete
       => /\ call'.ret = "None"
          /\ call'.name \notin DOMAIN file_directory'
          /\ call'.name \notin DOMAIN file_directory
                => UNCHANGED <<disk, file_directory, saved, now>>
          /\ (call.op = "delete" /\ call.name = call'.name)
                => UNCHANGED <<disk, file_directory, saved, now>>]_vars

\* delete_file has been called twice and nothing was ever saved: the calls
\* were on absent names
C16_Witness ==
    /\ call.op = "delete"
    /\ ncalls >= 2
    /\ saved = <<>>
    /\ call.name \notin DOMAIN file_directory

(***************************************************************************)
(* Notions the statements about the process manager share.                 *)
(***************************************************************************)
\* process a comes before process b by (priority, timestamp)
KeyBefore(a, b) ==
    \/ procs[a].priority < procs[b].priority
    \/ /\ procs[a].priority = procs[b].priority
       /\ procs[a].timestamp < procs[b].timestamp

\* a step of one get_next_process call on a non-empty queue
IsDispatch == pmcall'.op = "get_next_process" /\ queue # <<>>

\* the processes with status 'running'
Running == {a \in 1..Len(procs) : procs[a].status = "running"}

(***************************************************************************)
(* C17. Process dispatch order: after any sequence of add_process,         *)
(* get_next_process and change_algorithm calls, get_next_process returns   *)
(* the queued process that is first under the active algorithm's order:    *)
(* none of the queued processes has a smaller (priority, timestamp) in     *)
(* priority and sjf mode, and it is the earliest added of the queued       *)
(* processes in fcfs and round_robin mode (processes are numbered in the   *)
(* order they were added).                                                 *)
(***************************************************************************)
C17_DispatchOrder ==
    [][IsDispatch
       => LET r == pmcall'.ret
          IN  /\ r \in Range(queue)
              /\ scheduling_algorithm \in {"priority", "sjf"}
                    => \A a \in Range(queue) : ~KeyBefore(a, r)
              /\ scheduling_algorithm \in {"fcfs", "round_robin"}
                    => \A a \in Range(queue) : r <= a]_vars

\* the part of C17 about priority and sjf mode, which holds
DispatchOrder_PriorityModes ==
    [][(IsDispatch /\ scheduling_algorithm \in {"priority", "sjf"})
       => /\ pmcall'.ret \in Range(queue)
          /\ \A a \in Range(queue) : ~KeyBefore(a, pmcall'.ret)]_vars

\* the part of C17 about fcfs mode, which holds while the list is in the
\* order of addition, as it is when every queued process was added in fcfs
\* mode: change_algorithm keeps the list order of the heap it finds
DispatchOrder_FcfsAddedInFcfs ==
    [][(IsDispatch /\ scheduling_algorithm = "fcfs"
        /\ \A i \in 1..(Len(queue) - 1) : queue[i] < queue[i + 1])
       => pmcall'.ret = queue[1]]_vars

(***************************************************************************)
(* C18. Process completion: after processes were added and                 *)
(* get_next_process was called until it returned None ('Execute All'),     *)
(* every process that was added has status 'completed' and appears in the  *)
(* completed list exactly once, and no process is left with status         *)
(* 'running'; at every point at most one process has status 'running'.     *)
(***************************************************************************)
C18_ProcessCompletion ==
    /\ Cardinality(Running) <= 1
    /\ pmcall.op = "execute_all" =>
          /\ Running = {}
          /\ \A a \in 1..Len(procs) :
                /\ procs[a].status = "completed"
                /\ Count(completed, a) = 1

\* the part of C18 that holds: at most one process is running, it is
\* current_process, and the completed list holds the completed processes
\* once each
AtMostOneRunning ==
    /\ Cardinality(Running) <= 1
    /\ Running = IF current_process = 0 THEN {} ELSE {current_process}
    /\ \A a \in 1..Len(procs) :
          Count(completed, a) = IF procs[a].status = "completed" THEN 1 ELSE 0

\* what the 'Execute All' loop leaves: the queue is empty and, if any
\* process was ever dispatched, the one dispatched last is still running
AfterExecuteAll ==
    pmcall.op = "execute_all" =>
        /\ queue = <<>>
        /\ \A a \in 1..Len(procs) : procs[a].status # "waiting"
        /\ procs # <<>> => Cardinality(Running) = 1

====
